---- MODULE Spec2Model ----
(***************************************************************************)
(* A model of the rules core of ramino: the card model (card.rs), the run  *)
(* classifier verify_run (run.rs), the hand and its score (hand.rs) and    *)
(* the deck generators (utils.rs).  A Run that verify_run returned can be   *)
(* passed on to Run::coerce_to_real.                                       *)
(*                                                                         *)
(* The functions are pure.  Every behaviour picks one call and its         *)
(* arguments in Init, and the action of that call computes the result the  *)
(* code computes.  Arithmetic is u8: an overflowing operation panics in a  *)
(* build with overflow checks and wraps modulo 256 in a build without.     *)
(***************************************************************************)
EXTENDS Integers, Sequences, FiniteSets, TLC

VARIABLES
    op,      \* the function a behaviour calls
    pc,      \* "deck": a deck to draw from, "ready": arguments set, "done": returned
    cards,   \* the Vec<Card> argument: the run's cards, the pair compared, the hand
    deck,    \* the deck Hand::draw pops from
    run_self, \* the Run coerce_to_real is called on
    strategy,\* the RunCoercionStrategy coerce_to_real is called with
    calls,   \* the calls of get_distance verify_run made: <<self, other>> each
    result   \* what the call returned, or that it panicked

vars == <<op, pc, cards, deck, run_self, strategy, calls, result>>

(* ---------------------------- bounds ----------------------------------- *)

\* longest input of verify_run
MaxLen == 4

\* longest hand that is built directly (Hand(vec![..])), as the tests do
MaxHandLen == 3

\* longest hand that holds the first cards of a deck
MaxDealt == 14

(* --------------------------- card.rs ----------------------------------- *)

U8 == 256

HAND_SIZE == 13

Number(n) == [tag |-> "Number", n |-> n]
Jack      == [tag |-> "Jack",   n |-> 0]
Queen     == [tag |-> "Queen",  n |-> 0]
King      == [tag |-> "King",   n |-> 0]
Ace       == [tag |-> "Ace",    n |-> 0]
Joker     == [tag |-> "Joker",  n |-> 0]

\* The Number(u8) variant only holds values between 2 and 10.
CardType == {Number(n) : n \in 2..10} \cup {Jack, Queen, King, Ace, Joker}

Suit == {"Spades", "Diamonds", "Clubs", "Hearts", "JokerSuit"}

\* #[derive(PartialOrd, Ord)] on Suit: the order of declaration
SuitIndex(s) ==
    CASE s = "Spades"    -> 0
      [] s = "Diamonds"  -> 1
      [] s = "Clubs"     -> 2
      [] s = "Hearts"    -> 3
      [] s = "JokerSuit" -> 4

Card == [card_type : CardType, suit : Suit]

new(card_type, suit) == [card_type |-> card_type, suit |-> suit]

\* Ordering::cmp on two u8
U8Cmp(x, y) == IF x < y THEN "Less" ELSE IF x = y THEN "Equal" ELSE "Greater"

\* Card::score without the Joker arm: the Joker falls to the `_ => 10` arm
Card_score_NoJokerArm(c) ==
    CASE c.card_type.tag = "Number" -> c.card_type.n
      [] c.card_type.tag = "Ace"    -> 11
      [] OTHER                      -> 10

Card_score(c) ==
    CASE c.card_type.tag = "Number" -> c.card_type.n
      [] c.card_type.tag = "Ace"    -> 11
      [] c.card_type.tag = "Joker"  -> 25
      [] OTHER                      -> 10

\* get_comparison_value with the Ace above the King
get_comparison_value_AceHigh(c) ==
    CASE c.card_type.tag = "Ace"    -> 14
      [] c.card_type.tag = "Number" -> c.card_type.n
      [] c.card_type.tag = "Jack"   -> 11
      [] c.card_type.tag = "Queen"  -> 12
      [] c.card_type.tag = "King"   -> 13
      [] c.card_type.tag = "Joker"  -> 99

get_comparison_value(c) ==
    CASE c.card_type.tag = "Ace"    -> 1
      [] c.card_type.tag = "Number" -> c.card_type.n
      [] c.card_type.tag = "Jack"   -> 11
      [] c.card_type.tag = "Queen"  -> 12
      [] c.card_type.tag = "King"   -> 13
      [] c.card_type.tag = "Joker"  -> 99

\* u8 arithmetic: [panic, v]; panic only in a build with overflow checks
U8Sub(x, y, checks) ==
    IF x >= y THEN [panic |-> FALSE, v |-> x - y]
    ELSE [panic |-> checks, v |-> (x - y + U8) % U8]

U8Add(x, y, checks) ==
    IF x + y < U8 THEN [panic |-> FALSE, v |-> x + y]
    ELSE [panic |-> checks, v |-> (x + y) % U8]

get_distance(self, other, checks) ==
    LET self_val  == get_comparison_value(self)
        other_val == get_comparison_value(other)
    IN  IF self_val = 1 /\ other_val = 13
        THEN [panic |-> FALSE, v |-> 1]
        ELSE U8Sub(other_val, self_val, checks)

WellDefined(o) == [tag |-> "WellDefined", o |-> o]
IllDefined     == [tag |-> "IllDefined",  o |-> "None"]

\* compare without the test for a Joker's value
compare_NoJokerTest(self, other) ==
    IF self.suit = other.suit
    THEN LET self_val  == get_comparison_value(self)
             other_val == get_comparison_value(other)
         IN  IF self_val = 1 /\ other_val = 13 THEN WellDefined("Less")
             ELSE IF self_val = 13 /\ other_val = 1 THEN WellDefined("Greater")
             ELSE WellDefined(U8Cmp(self_val, other_val))
    ELSE IllDefined

compare(self, other) ==
    IF self.suit = other.suit
    THEN LET self_val  == get_comparison_value(self)
             other_val == get_comparison_value(other)
         IN  IF self_val = 1 /\ other_val = 13 THEN WellDefined("Less")
             ELSE IF self_val = 13 /\ other_val = 1 THEN WellDefined("Greater")
             ELSE IF self_val = 99 \/ other_val = 99 THEN IllDefined
             ELSE WellDefined(U8Cmp(self_val, other_val))
    ELSE IllDefined

\* Option<Ordering>: "None" or an Ordering
partial_cmp(self, other) ==
    IF self.suit = other.suit
    THEN LET o == compare(self, other)
         IN  IF o.tag = "WellDefined" THEN o.o ELSE "None"
    ELSE U8Cmp(SuitIndex(self.suit), SuitIndex(other.suit))

cmp(self, other) ==
    IF partial_cmp(self, other) = "None" THEN "Less" ELSE partial_cmp(self, other)

\* PartialOrd::lt, the comparison slice::sort makes
lt(self, other) == partial_cmp(self, other) = "Less"

(* ---------------------------- run.rs ----------------------------------- *)

Ascending(cs) == [tag |-> "Ascending", cards |-> cs]
Equal(cs)     == [tag |-> "Equal",     cards |-> cs]

\* what a call leaves in result
NoResult   == [kind |-> "none",  tag |-> "none", cards |-> <<>>, val |-> 0]
Ok(run)    == [kind |-> "Ok",    tag |-> run.tag, cards |-> run.cards, val |-> 0]
Err        == [kind |-> "Err",   tag |-> "none", cards |-> <<>>, val |-> 0]
Panic      == [kind |-> "Panic", tag |-> "none", cards |-> <<>>, val |-> 0]
Value(v)   == [kind |-> "Value", tag |-> "none", cards |-> <<>>, val |-> v]
Ordered(o) == [kind |-> o.tag,   tag |-> o.o,    cards |-> <<>>, val |-> 0]

NoRun == [tag |-> "none", cards |-> <<>>]

RunCoercionStrategy(prefer_ascending, highest_possible, suit_preference) ==
    [prefer_ascending |-> prefer_ascending,
     highest_possible |-> highest_possible,
     suit_preference  |-> suit_preference]

NoStrategy == RunCoercionStrategy(FALSE, FALSE, <<>>)

\* Run::coerce_to_real: unimplemented!("Run coercion isn't yet implemented")
coerce_to_real(self, s) == Panic

\* Vec::dedup: removes consecutive repeated elements
RECURSIVE dedup(_)
dedup(v) ==
    IF Len(v) <= 1 THEN v
    ELSE LET rest == dedup(Tail(v))
         IN  IF Head(v) = Head(rest) THEN rest ELSE <<Head(v)>> \o rest

\* the step of the insertion sort slice::sort runs on a short slice: x moves
\* left past every element it is less than.  On the cards of a deck lt is a
\* strict weak order (suit, then value; the Jokers, all of JokerSuit, are
\* equivalent), so the sorted order does not depend on the sorting algorithm.
RECURSIVE insert_tail(_, _)
insert_tail(sorted, x) ==
    IF sorted = <<>> THEN <<x>>
    ELSE IF lt(x, sorted[Len(sorted)])
         THEN insert_tail(SubSeq(sorted, 1, Len(sorted) - 1), x)
                  \o <<sorted[Len(sorted)]>>
         ELSE sorted \o <<x>>

RECURSIVE sort(_)
sort(v) ==
    IF Len(v) <= 1 THEN v
    ELSE insert_tail(sort(SubSeq(v, 1, Len(v) - 1)), v[Len(v)])

\* cards.windows(2).fold(0u8, |acc, cards| acc + cards[0].get_distance(&cards[1]))
\* from window i on, with acc so far
RECURSIVE fold_distance(_, _, _, _)
fold_distance(v, i, acc, checks) ==
    IF i >= Len(v) THEN [panic |-> FALSE, v |-> acc]
    ELSE LET d == get_distance(v[i], v[i + 1], checks)
             s == U8Add(acc, d.v, checks)
         IN  IF d.panic \/ s.panic THEN [panic |-> TRUE, v |-> 0]
             ELSE fold_distance(v, i + 1, s.v, checks)

\* the first check comparing whole cards instead of their types
all_same_card(v) == \A i \in 1..Len(v) : v[i] = v[1]

all_same_card_type(v) == \A i \in 1..Len(v) : v[i].card_type = v[1].card_type

\* the loop over suits_seen_so_far: it stops at the first suit seen before
RECURSIVE suits_seen_so_far(_, _)
suits_seen_so_far(v, seen) ==
    IF v = <<>> THEN seen
    ELSE IF \E j \in 1..Len(seen) : seen[j] = Head(v).suit THEN seen
    ELSE suits_seen_so_far(Tail(v), Append(seen, Head(v).suit))

verify_run(v, checks) ==
    IF ~(Len(v) >= 3) THEN Panic
    ELSE IF ~(dedup(v) = v) THEN Panic
    ELSE IF all_same_card_type(v)
    THEN LET seen == suits_seen_so_far(v, <<>>)
         IN  Ok(Equal(v))
    ELSE LET sorted == sort(v)
             sum    == fold_distance(sorted, 1, 0, checks)
         IN  IF sum.panic THEN Panic
             ELSE IF sum.v > Len(sorted) % U8 THEN Err
             ELSE Ok(Ascending(sorted))

\* the windows the fold of verify_run calls get_distance on, from window i
\* on: all of them, or those up to the operation that panics
RECURSIVE fold_calls(_, _, _, _)
fold_calls(v, i, acc, checks) ==
    IF i >= Len(v) THEN <<>>
    ELSE LET d == get_distance(v[i], v[i + 1], checks)
             s == U8Add(acc, d.v, checks)
         IN  <<[self |-> v[i], other |-> v[i + 1]]>>
                 \o (IF d.panic \/ s.panic THEN <<>>
                     ELSE fold_calls(v, i + 1, s.v, checks))

\* the calls of get_distance a call of verify_run makes
distance_calls(v, checks) ==
    IF ~(Len(v) >= 3) \/ ~(dedup(v) = v) \/ all_same_card_type(v) THEN <<>>
    ELSE fold_calls(sort(v), 1, 0, checks)

(* ---------------------------- hand.rs ---------------------------------- *)

\* self.0.iter().fold(0u8, |acc, c| acc + c.score()) from card i on
RECURSIVE fold_score(_, _, _, _)
fold_score(v, i, acc, checks) ==
    IF i > Len(v) THEN [panic |-> FALSE, v |-> acc]
    ELSE LET s == U8Add(acc, Card_score(v[i]), checks)
         IN  IF s.panic THEN [panic |-> TRUE, v |-> 0]
             ELSE fold_score(v, i + 1, s.v, checks)

Hand_score(v, checks) ==
    IF Len(v) = HAND_SIZE THEN Value(100)
    ELSE IF Len(v) = 1 /\ v[1].card_type = Ace THEN Value(1)
    ELSE LET sum == fold_score(v, 1, 0, checks)
         IN  IF sum.panic THEN Panic ELSE Value(sum.v)

\* Hand::draw: HAND_SIZE pops off the end of the deck
draw_hand(d) == [i \in 1..HAND_SIZE |-> d[Len(d) - i + 1]]
draw_rest(d) == SubSeq(d, 1, Len(d) - HAND_SIZE)

(* ---------------------------- utils.rs --------------------------------- *)

suit_cards(suit) ==
    <<new(Ace, suit), new(King, suit), new(Queen, suit), new(Jack, suit)>>
        \o [i \in 1..9 |-> new(Number(i + 1), suit)]

\* deck.shuffle(..): one of the rotations of the deck, a bounded family of
\* the permutations the random shuffle can produce
rotate(d, k) == [i \in 1..Len(d) |-> d[((i - 1 + k) % Len(d)) + 1]]

generate_single_deck(k) ==
    rotate(suit_cards("Spades") \o suit_cards("Hearts") \o suit_cards("Diamonds")
              \o suit_cards("Clubs")
              \o <<new(Joker, "JokerSuit"), new(Joker, "JokerSuit")>>, k)

generate_deck(k1, k2) == generate_single_deck(k1) \o generate_single_deck(k2)

(* ------------------------- the calls ----------------------------------- *)

SeqsUpTo(S, n) == UNION {[1..k -> S] : k \in 0..n}

S(t) == new(t, "Spades")
D(t) == new(t, "Diamonds")
C(t) == new(t, "Clubs")
H(t) == new(t, "Hearts")
JokerCard == new(Joker, "JokerSuit")

\* The cards the inputs of verify_run are drawn from: a suit with low cards,
\* a gap and the court cards next to the Ace, one rank in every suit, a card
\* of another rank in another suit, and a Joker.
RunCards ==
    {S(Ace), S(Number(2)), S(Number(3)), S(Number(4)), S(Number(5)),
     S(Queen), S(King),
     D(Number(2)), C(Number(2)), H(Number(2)), H(Number(3)), JokerCard}

RunInputs == SeqsUpTo(RunCards, MaxLen)

\* The cards of the hands that are built directly.
HandCards ==
    {S(Ace), H(Ace), S(King), H(Queen), D(Jack), JokerCard,
     C(Number(2)), S(Number(8)), S(Number(9)), C(Number(10))}

\* the n cards of generate_deck that score most: 4 Jokers, 8 Aces, then
\* cards that score 10
richest_cards ==
    [i \in 1..4 |-> JokerCard]
        \o <<S(Ace), S(Ace), H(Ace), H(Ace), D(Ace), D(Ace), C(Ace), C(Ace)>>
        \o <<S(King), S(King), H(King), H(King), D(King), D(King), C(King), C(King)>>

Decks == {generate_deck(k1, k2) : k1 \in {0, 7}, k2 \in 0..53}

HandInputs ==
    SeqsUpTo(HandCards, MaxHandLen)
        \cup {SubSeq(generate_single_deck(k), 1, n) : k \in 0..53, n \in 0..MaxDealt}
        \cup {SubSeq(richest_cards, 1, n) : n \in 0..MaxDealt}

\* the strategies coerce_to_real is called with: both values of both flags,
\* with the suit preference of the doc comment
Strategies ==
    {RunCoercionStrategy(pa, hp, <<"Clubs", "Diamonds", "Spades", "Hearts">>) :
        pa \in BOOLEAN, hp \in BOOLEAN}

InitRun ==
    /\ op = "verify_run"
    /\ pc = "ready"
    /\ cards \in RunInputs
    /\ deck = <<>>
    /\ run_self = NoRun /\ strategy = NoStrategy /\ calls = <<>>
    /\ result = NoResult

InitCompare ==
    /\ op = "compare"
    /\ pc = "ready"
    /\ cards \in [1..2 -> Card]
    /\ deck = <<>>
    /\ run_self = NoRun /\ strategy = NoStrategy /\ calls = <<>>
    /\ result = NoResult

InitScore ==
    /\ op = "score"
    /\ result = NoResult
    /\ run_self = NoRun /\ strategy = NoStrategy /\ calls = <<>>
    /\ \/ pc = "ready" /\ cards \in HandInputs /\ deck = <<>>
       \/ pc = "deck" /\ cards = <<>> /\ deck \in Decks

Init == InitRun \/ InitCompare \/ InitScore

VerifyRun ==
    /\ op = "verify_run" /\ pc = "ready"
    /\ \E checks \in BOOLEAN :
           /\ result' = verify_run(cards, checks)
           /\ calls' = distance_calls(cards, checks)
    /\ pc' = "done"
    /\ UNCHANGED <<op, cards, deck, run_self, strategy>>

Compare ==
    /\ op = "compare" /\ pc = "ready"
    /\ result' = Ordered(compare(cards[1], cards[2]))
    /\ pc' = "done"
    /\ UNCHANGED <<op, cards, deck, run_self, strategy, calls>>

Draw ==
    /\ op = "score" /\ pc = "deck"
    /\ Len(deck) >= HAND_SIZE
    /\ cards' = draw_hand(deck)
    /\ deck' = draw_rest(deck)
    /\ pc' = "ready"
    /\ UNCHANGED <<op, run_self, strategy, calls, result>>

Score ==
    /\ op = "score" /\ pc = "ready"
    /\ \E checks \in BOOLEAN : result' = Hand_score(cards, checks)
    /\ pc' = "done"
    /\ UNCHANGED <<op, cards, deck, run_self, strategy, calls>>

\* a Run that verify_run returned is coerced
CoerceToReal ==
    /\ op = "verify_run" /\ pc = "done" /\ result.kind = "Ok"
    /\ run_self' = [tag |-> result.tag, cards |-> result.cards]
    /\ strategy' \in Strategies
    /\ result' = coerce_to_real(run_self', strategy')
    /\ op' = "coerce_to_real"
    /\ UNCHANGED <<pc, cards, deck, calls>>

Next == VerifyRun \/ Compare \/ Draw \/ Score \/ CoerceToReal

Spec == Init /\ [][Next]_vars

Done(f) == op = f /\ pc = "done"

(* ------------------------- properties ---------------------------------- *)

Range(v) == {v[i] : i \in DOMAIN v}

HasDuplicate(v) == \E i, j \in DOMAIN v : i < j /\ v[i] = v[j]

NoJoker(v) == \A i \in DOMAIN v : v[i].card_type # Joker

OneRank(v) == \A i, j \in DOMAIN v : v[i].card_type = v[j].card_type

OneSuit(v) == \A i, j \in DOMAIN v : v[i].suit = v[j].suit

DistinctSuits(v) == \A i, j \in DOMAIN v : i < j => v[i].suit # v[j].suit

\* the comparison keys as the rules give them: Ace 1, 2..10, Jack 11,
\* Queen 12, King 13
RuleKey(c) ==
    CASE c.card_type = Ace   -> 1
      [] c.card_type = Jack  -> 11
      [] c.card_type = Queen -> 12
      [] c.card_type = King  -> 13
      [] OTHER               -> c.card_type.n

MinKey(v) == CHOOSE k \in {RuleKey(c) : c \in Range(v)} :
                 \A c \in Range(v) : k <= RuleKey(c)

ConsecutiveKeys(v) ==
    {RuleKey(c) : c \in Range(v)} = MinKey(v)..(MinKey(v) + Len(v) - 1)

ByAscendingKey(v) ==
    [i \in 1..Len(v) |-> CHOOSE c \in Range(v) : RuleKey(c) = MinKey(v) + i - 1]

\* C1: verify_run never returns a Run for an input that holds the same card
\* twice, wherever the two copies are.
C1_DuplicateNeverARun ==
    (Done("verify_run") /\ HasDuplicate(cards)) => result.kind # "Ok"

\* C2: every Run::Equal verify_run returns holds cards of one rank with
\* pairwise distinct suits and has 3 or 4 cards.
C2_EqualIsWellFormed ==
    (Done("verify_run") /\ result.kind = "Ok" /\ result.tag = "Equal")
        => /\ OneRank(result.cards)
           /\ DistinctSuits(result.cards)
           /\ Len(result.cards) \in 3..4

\* C3: on a duplicate-free input of at least 3 cards without a Joker that is
\* neither of one rank nor of one suit, verify_run fails: it never returns
\* Ok(Ascending) or Ok(Equal).
C3_MixedIsNeverARun ==
    (/\ Done("verify_run")
     /\ Len(cards) >= 3 /\ ~HasDuplicate(cards) /\ NoJoker(cards)
     /\ ~OneRank(cards) /\ ~OneSuit(cards))
        => result.kind # "Ok"

\* C4: verify_run on Queen, King, Ace of one suit returns
\* Ok(Ascending([Queen, King, Ace])).
C4_QueenKingAceWraps ==
    (Done("verify_run") /\ cards = <<S(Queen), S(King), S(Ace)>>)
        => result = Ok(Ascending(<<S(Queen), S(King), S(Ace)>>))

\* C5: in every Run::Ascending verify_run returns, neighbouring cards are
\* exactly one step apart (the King and the Ace count as one step apart), so
\* cards of one suit with a gap are never returned as Ascending; stated for
\* the inputs of one suit without a repeated card.
OneStep(a, b) ==
    /\ NoJoker(<<a, b>>)
    /\ \/ RuleKey(b) = RuleKey(a) + 1
       \/ {RuleKey(a), RuleKey(b)} = {1, 13}

C5_AscendingIsConsecutive ==
    (/\ Done("verify_run") /\ ~HasDuplicate(cards) /\ OneSuit(cards)
     /\ result.kind = "Ok" /\ result.tag = "Ascending")
        => \A i \in 1..(Len(result.cards) - 1) :
               OneStep(result.cards[i], result.cards[i + 1])

\* C6: a duplicate-free input of at least 3 cards of one suit without a
\* Joker whose keys are consecutive, in any order, makes verify_run return
\* Ok(Ascending(the cards by ascending key)).
C6_ConsecutiveIsAscending ==
    (/\ Done("verify_run")
     /\ Len(cards) >= 3 /\ ~HasDuplicate(cards) /\ NoJoker(cards)
     /\ OneSuit(cards) /\ ConsecutiveKeys(cards))
        => result = Ok(Ascending(ByAscendingKey(cards)))

C6_Witness ==
    /\ Done("verify_run")
    /\ cards = <<S(Number(2)), S(Number(3)), S(Ace)>>
    /\ result = Ok(Ascending(<<S(Ace), S(Number(2)), S(Number(3))>>))

\* C7: an input of 3 or 4 cards of one rank without a Joker, with pairwise
\* distinct suits, makes verify_run return Ok(Equal(the input)).
C7_DistinctSuitsIsEqual ==
    (/\ Done("verify_run")
     /\ Len(cards) \in 3..4 /\ NoJoker(cards)
     /\ OneRank(cards) /\ DistinctSuits(cards))
        => result = Ok(Equal(cards))

C7_Witness ==
    /\ Done("verify_run")
    /\ cards = <<H(Number(2)), S(Number(2)), C(Number(2)), D(Number(2))>>
    /\ result.kind = "Ok" /\ result.tag = "Equal" /\ result.cards = cards

\* C8: compare(a, b) is IllDefined when the suits differ or a card is a
\* Joker, and WellDefined(key(a) compared with key(b)) otherwise.
RuleCompare(a, b) ==
    IF a.suit # b.suit \/ a.card_type = Joker \/ b.card_type = Joker
    THEN IllDefined
    ELSE WellDefined(IF RuleKey(a) < RuleKey(b) THEN "Less"
                     ELSE IF RuleKey(a) > RuleKey(b) THEN "Greater"
                     ELSE "Equal")

C9_TooFewIsErr ==
    (Done("verify_run") /\ Len(cards) < 3) => result = Err

\* C10: Hand::score is 100 for a hand of 13 cards, 1 for a hand of a single
\* Ace, and otherwise the sum over the cards of: the face value of a numbered
\* card, 10 for Jack, Queen and King, 11 for an Ace, 25 for a Joker; in any
\* order of the cards.
RuleScore(c) ==
    CASE c.card_type = Ace   -> 11
      [] c.card_type = Joker -> 25
      [] c.card_type \in {Jack, Queen, King} -> 10
      [] OTHER               -> c.card_type.n

Count(v, c) == Cardinality({i \in DOMAIN v : v[i] = c})

RECURSIVE SumOfKinds(_, _)
SumOfKinds(v, kinds) ==
    IF kinds = {} THEN 0
    ELSE LET c == CHOOSE k \in kinds : TRUE
         IN  Count(v, c) * RuleScore(c) + SumOfKinds(v, kinds \ {c})

RuleHandScore(v) ==
    IF Len(v) = 13 THEN 100
    ELSE IF Len(v) = 1 /\ v[1].card_type = Ace THEN 1
    ELSE SumOfKinds(v, Range(v))

C11_CoerceWithoutJokerIsIdentity ==
    (Done("coerce_to_real") /\ NoJoker(run_self.cards)) => result = Ok(run_self)

\* C12: an input of one Joker and at least 2 cards of one suit without a
\* Joker, which are consecutive or miss a single rank between them, makes
\* verify_run return Ok(Ascending): the Joker is a wildcard.
NonJokers(v) == {c \in Range(v) : c.card_type # Joker}

KeySpan(cs) ==
    LET keys == {RuleKey(c) : c \in cs}
        lo   == CHOOSE k \in keys : \A j \in keys : k <= j
        hi   == CHOOSE k \in keys : \A j \in keys : k >= j
    IN  hi - lo + 1

OneJokerRun(v) ==
    /\ Cardinality({i \in DOMAIN v : v[i].card_type = Joker}) = 1
    /\ Cardinality(NonJokers(v)) = Len(v) - 1
    /\ Len(v) - 1 >= 2
    /\ \A a, b \in NonJokers(v) : a.suit = b.suit
    /\ KeySpan(NonJokers(v)) - (Len(v) - 1) \in {0, 1}

C12_JokerIsWildcard ==
    (Done("verify_run") /\ OneJokerRun(cards))
        => (result.kind = "Ok" /\ result.tag = "Ascending")

\* C13: every call get_distance(a, b) verify_run makes, on any input of at
\* least 3 cards, has a as the smaller card: key(a) <= key(b), so the u8
\* subtraction key(b) - key(a) never underflows.
C13_DistanceArgumentsAscend ==
    (Done("verify_run") /\ Len(cards) >= 3)
        => \A i \in DOMAIN calls :
               get_comparison_value(calls[i].self)
                   <= get_comparison_value(calls[i].other)

====
